---- MODULE Spec2Model ----
(***************************************************************************)
(* Model of the tosca-stack descriptor layer: the fixed-capacity,          *)
(* insertion-ordered collections (utils/sets.rs, utils/maps.rs), the       *)
(* Parameters builder on top of them (parameters.rs) and the fixed-size    *)
(* text (utils/string.rs).                                                 *)
(*                                                                         *)
(* A collection wraps a heapless FnvIndexSet / FnvIndexMap.  Its           *)
(* observable state is the vector of entries in insertion order, which is  *)
(* what iter() walks; a set entry is an element, a map entry is a pair     *)
(* <<key, value>>.  The hash index of the container only finds an entry    *)
(* by key and is represented by the search over the entries.               *)
(***************************************************************************)
EXTENDS Integers, Sequences, FiniteSets, TLC

VARIABLES kind, cap, coll, prev, hist, lastOp, other, panicked,
          str, strCap, strPrev, strOp, strArg, ret,
          routes, ctor, configs,
          energy, economy, info, devOp,
          err, shown, resp, respOp, respGiven,
          subject, before, call, arg

vars == <<kind, cap, coll, prev, hist, lastOp, other, panicked,
          str, strCap, strPrev, strOp, strArg, ret,
          routes, ctor, configs,
          energy, economy, info, devOp,
          err, shown, resp, respOp, respGiven,
          subject, before, call, arg>>

collVars == <<kind, cap, coll, prev, hist, lastOp, other, panicked>>
strVars == <<str, strCap, strPrev, strOp, strArg, ret>>
routeVars == <<routes, ctor, configs>>
devVars == <<energy, economy, info, devOp>>
errVars == <<err, shown>>
respVars == <<resp, respOp, respGiven>>
buildVars == <<subject, before, call, arg>>
auxVars == <<errVars, respVars, buildVars>>

(***************************************************************************)
(* Bounds of the model.                                                    *)
(***************************************************************************)
\* Number of items handed to one collection after its construction.
MaxOps == 3
\* Length of a text handed to the fixed-size text, in characters.
MaxTextLen == 2
\* Largest byte capacity N of a fixed-size text.
MaxStrCap == 3

\* Capacities N of the collections: heapless index containers take a power
\* of two greater than one (hazards.rs: "accepts only a power of two").
Capacities == {2, 4}
\* Set elements (hazards), map keys (names) and map values.
Elems == {"A", "B", "C"}
Keys == {"a", "b", "c"}
Vals == {"v", "w"}

SetKinds == {"Set", "SerialSet", "OutputSet"}
MapKinds == {"Map", "SerialMap", "OutputMap"}

Range(s) == {s[i] : i \in 1..Len(s)}
SeqsUpTo(S, n) == UNION {[1..m -> S] : m \in 0..n}

(***************************************************************************)
(* Sets: utils/sets.rs                                                     *)
(***************************************************************************)
\* contains(): the element is one of the entries.
set_contains(s, e) == \E i \in 1..Len(s) : s[i] = e

\* FnvIndexSet::insert as called by insert/add: Ok(true) appends a new
\* element while there is room, Ok(false) leaves a present element where it
\* is, Err(element) when the element is new and the set holds n elements.
IndexSetInsert(s, e, n) ==
    IF set_contains(s, e) THEN [entries |-> s, ok |-> TRUE]
    ELSE IF Len(s) >= n THEN [entries |-> s, ok |-> FALSE]
    ELSE [entries |-> Append(s, e), ok |-> TRUE]

set_new == <<>>

\* Mutant of insert: a present element is moved to the end.
set_insert_moves(s, e, n) ==
    IF set_contains(s, e) THEN Append(SelectSeq(s, LAMBDA x : x # e), e)
    ELSE IndexSetInsert(s, e, n).entries

\* insert(mut self, element) -> Self: the Result of the container is dropped.
set_insert(s, e, n) == IndexSetInsert(s, e, n).entries

\* Mutant of add: a new element is appended although the set is full.
set_add_unbounded(s, e, n) == IF set_contains(s, e) THEN s ELSE Append(s, e)

\* add(&mut self, element): the Result of the container is dropped.
set_add(s, e, n) == IndexSetInsert(s, e, n).entries

set_init(e, n) == set_add(set_new, e, n)

set_len(s) == Len(s)
set_is_empty(s) == Len(s) = 0
set_iter(s) == s

RECURSIVE SetAddAll(_, _, _)
SetAddAll(s, xs, n) ==
    IF xs = <<>> THEN s ELSE SetAddAll(set_add(s, Head(xs), n), Tail(xs), n)

set_init_with_elements(xs, n) == SetAddAll(set_new, xs, n)

\* from(set): a new set of the target variant, filled entry by entry.
FromElem(e) == e

RECURSIVE FromSetLoop(_, _, _)
FromSetLoop(new_set, rest, n) ==
    IF rest = <<>> THEN new_set
    ELSE FromSetLoop(IndexSetInsert(new_set, FromElem(Head(rest)), n).entries,
                     Tail(rest), n)

from_set(s, n) == FromSetLoop(set_new, set_iter(s), n)

\* Mutant of union: the other set's elements come first.
SetUnionOtherFirst(s, o) == o \o SelectSeq(s, LAMBDA e : ~set_contains(o, e))

\* union(): the receiver's elements, then the other's elements the receiver
\* does not hold, each in its own iteration order.
SetUnion(s, o) == s \o SelectSeq(o, LAMBDA e : ~set_contains(s, e))

\* collect(): every item is inserted into an empty container and the Result
\* of each insert is unwrapped, so an item that does not fit panics.
RECURSIVE Collect(_, _, _)
Collect(acc, xs, n) ==
    IF xs = <<>> THEN [entries |-> acc, panic |-> FALSE]
    ELSE LET r == IndexSetInsert(acc, Head(xs), n)
         IN  IF r.ok THEN Collect(r.entries, Tail(xs), n)
             ELSE [entries |-> acc, panic |-> TRUE]

\* Mutant of merge: the receiver becomes a copy of the other set.
set_merge_copies(s, o, n) == [entries |-> o, panic |-> FALSE]

\* merge(&mut self, element: &Self): self.0 is assigned once collect()
\* returned; a panic leaves the receiver as it was.
set_merge(s, o, n) ==
    LET r == Collect(<<>>, SetUnion(s, o), n)
    IN  IF r.panic THEN [entries |-> s, panic |-> TRUE]
        ELSE [entries |-> r.entries, panic |-> FALSE]

(***************************************************************************)
(* Maps: utils/maps.rs                                                     *)
(***************************************************************************)
map_contains_key(m, k) == \E i \in 1..Len(m) : m[i][1] = k

KeyIndex(m, k) == CHOOSE i \in 1..Len(m) : m[i][1] = k

\* Mutant of FnvIndexMap::insert: a present key gets a second entry while
\* there is room.
IndexMapInsertAppends(m, k, v, n) ==
    IF Len(m) >= n THEN [entries |-> m, ok |-> FALSE]
    ELSE [entries |-> Append(m, <<k, v>>), ok |-> TRUE]

\* FnvIndexMap::insert as called by insert/add: Ok(Some(old)) replaces the
\* value of a present key where it is, Ok(None) appends a new entry while
\* there is room, Err((key, value)) when the key is new and the map holds n
\* entries.
IndexMapInsert(m, k, v, n) ==
    IF map_contains_key(m, k)
    THEN [entries |-> [m EXCEPT ![KeyIndex(m, k)] = <<m[KeyIndex(m, k)][1], v>>],
          ok |-> TRUE]
    ELSE IF Len(m) >= n THEN [entries |-> m, ok |-> FALSE]
    ELSE [entries |-> Append(m, <<k, v>>), ok |-> TRUE]

map_new == <<>>

\* Mutant of insert: a new key given to a full map takes the last entry's place.
map_insert_evicts(m, k, v, n) ==
    IF ~map_contains_key(m, k) /\ Len(m) >= n /\ Len(m) > 0
    THEN [m EXCEPT ![Len(m)] = <<k, v>>]
    ELSE IndexMapInsert(m, k, v, n).entries

\* Mutant of insert: a present key is removed and entered again at the end.
map_insert_reenters(m, k, v, n) ==
    IF map_contains_key(m, k)
    THEN Append(SelectSeq(m, LAMBDA x : x[1] # k), <<k, v>>)
    ELSE IndexMapInsert(m, k, v, n).entries

\* insert(mut self, key, value) -> Self: the Result of the container is dropped.
map_insert(m, k, v, n) == IndexMapInsert(m, k, v, n).entries

\* Mutant of add: a new entry goes to the front.
map_add_front(m, k, v, n) ==
    IF map_contains_key(m, k) \/ Len(m) >= n THEN IndexMapInsert(m, k, v, n).entries
    ELSE <<(<<k, v>>)>> \o m

\* Mutant of add: a present key keeps its old value.
map_add_keeps(m, k, v, n) ==
    IF map_contains_key(m, k) THEN m ELSE IndexMapInsert(m, k, v, n).entries

\* add(&mut self, key, value): the Result of the container is dropped.
map_add(m, k, v, n) == IndexMapInsert(m, k, v, n).entries

map_init(k, v, n) == map_insert(map_new, k, v, n)

map_len(m) == Len(m)
map_is_empty(m) == Len(m) = 0
map_iter(m) == m

RECURSIVE MapAddAll(_, _, _)
MapAddAll(m, xs, n) ==
    IF xs = <<>> THEN m
    ELSE MapAddAll(map_add(m, Head(xs)[1], Head(xs)[2], n), Tail(xs), n)

map_init_with_elements(xs, n) == MapAddAll(map_new, xs, n)

\* from(map): a new map of the target variant, filled entry by entry.
RECURSIVE FromMapLoop(_, _, _)
FromMapLoop(new_map, rest, n) ==
    IF rest = <<>> THEN new_map
    ELSE FromMapLoop(IndexMapInsert(new_map, FromElem(Head(rest)[1]),
                                    FromElem(Head(rest)[2]), n).entries,
                     Tail(rest), n)

\* Mutant of from: the entries are copied from the last to the first.
Reverse(s) == [i \in 1..Len(s) |-> s[Len(s) + 1 - i]]
from_map_reversed(m, n) == FromMapLoop(map_new, Reverse(map_iter(m)), n)

from_map(m, n) == FromMapLoop(map_new, map_iter(m), n)

(***************************************************************************)
(* Parameters: parameters.rs                                               *)
(***************************************************************************)
U8Defaults == {5, 9}

\* ParameterKind::Bool { default } and ParameterKind::U8 { default }, as
\* <<variant, default>>.
ParameterKinds == ({"Bool"} \X BOOLEAN) \cup ({"U8"} \X U8Defaults)

parameters_new == map_new

\* Mutant of create_parameter: a name already held keeps its parameter.
create_parameter_first_wins(p, name, parameter_kind, n) ==
    IF map_contains_key(p, name) THEN p ELSE map_insert(p, name, parameter_kind, n)

create_parameter(p, name, parameter_kind, n) == map_insert(p, name, parameter_kind, n)

parameters_bool(p, name, default, n) ==
    create_parameter(p, name, <<"Bool", default>>, n)

parameters_u8(p, name, default, n) ==
    create_parameter(p, name, <<"U8", default>>, n)

\* ParameterKind::RangeU64 { min, max, step, default } and
\* ParameterKind::RangeF64 { .. }, as <<variant, min, max, step, default>>.
\* An f64 is represented by the number of its tenths.
parameters_rangeu64_with_default(p, name, range, default, n) ==
    create_parameter(p, name, <<"RangeU64", range[1], range[2], range[3], default>>, n)

parameters_rangeu64(p, name, range, n) ==
    parameters_rangeu64_with_default(p, name, range, 0, n)

parameters_rangef64_with_default(p, name, range, default, n) ==
    create_parameter(p, name, <<"RangeF64", range[1], range[2], range[3], default>>, n)

parameters_rangef64(p, name, range, n) ==
    parameters_rangef64_with_default(p, name, range, 0, n)

\* serialize_data(self): every entry of the builder is added to a new
\* ParametersData, in iteration order.
serialize_data(p, n) == MapAddAll(map_new, map_iter(p), n)

(***************************************************************************)
(* The program under analysis builds one collection of type `kind` and     *)
(* capacity `cap`.  coll holds its entries, prev the entries before the    *)
(* last call, lastOp the name of that call, hist the items handed to the   *)
(* collection since its construction (merge hands over the other set's     *)
(* entries), other a second set of the same type used as the argument of   *)
(* merge, panicked whether a call panicked.  The initial state is the one  *)
(* after Self::new(); init and init_with_elements are the other            *)
(* constructors and take the place of new().                               *)
(***************************************************************************)
InitColl ==
    /\ kind \in SetKinds \cup MapKinds \cup {"Parameters"}
    /\ cap \in Capacities
    /\ coll = <<>>
    /\ prev = <<>>
    /\ hist = <<>>
    /\ lastOp = "new"
    /\ other = <<>>
    /\ panicked = FALSE

\* Self::init(element)
SetInit(e) ==
    /\ kind \in SetKinds /\ lastOp = "new"
    /\ coll' = set_init(e, cap) /\ prev' = <<>> /\ hist' = <<e>> /\ lastOp' = "init"
    /\ UNCHANGED <<kind, cap, other, panicked>>
    /\ UNCHANGED <<strVars, routeVars, devVars, auxVars>>

\* Self::init_with_elements(&xs)
SetInitWithElements(xs) ==
    /\ kind \in SetKinds /\ lastOp = "new"
    /\ coll' = set_init_with_elements(xs, cap)
    /\ prev' = <<>> /\ hist' = xs /\ lastOp' = "init_with_elements"
    /\ UNCHANGED <<kind, cap, other, panicked>>
    /\ UNCHANGED <<strVars, routeVars, devVars, auxVars>>

\* coll = coll.insert(element)
SetInsert(e) ==
    /\ kind \in SetKinds /\ ~panicked /\ Len(hist) < MaxOps
    /\ coll' = set_insert(coll, e, cap)
    /\ prev' = coll /\ hist' = Append(hist, e) /\ lastOp' = "insert"
    /\ UNCHANGED <<kind, cap, other, panicked>>
    /\ UNCHANGED <<strVars, routeVars, devVars, auxVars>>

\* coll.add(element)
SetAdd(e) ==
    /\ kind \in SetKinds /\ ~panicked /\ Len(hist) < MaxOps
    /\ coll' = set_add(coll, e, cap)
    /\ prev' = coll /\ hist' = Append(hist, e) /\ lastOp' = "add"
    /\ UNCHANGED <<kind, cap, other, panicked>>
    /\ UNCHANGED <<strVars, routeVars, devVars, auxVars>>

\* other.add(element)
OtherAdd(e) ==
    /\ kind \in SetKinds /\ ~panicked /\ ~set_contains(other, e)
    /\ other' = set_add(other, e, cap)
    /\ prev' = coll /\ lastOp' = "other_add"
    /\ UNCHANGED <<kind, cap, coll, hist, panicked>>
    /\ UNCHANGED <<strVars, routeVars, devVars, auxVars>>

\* coll.merge(&other)
SetMerge ==
    /\ kind \in SetKinds /\ ~panicked /\ Len(hist) < MaxOps
    /\ coll' = set_merge(coll, other, cap).entries
    /\ panicked' = set_merge(coll, other, cap).panic
    /\ prev' = coll /\ hist' = hist \o set_iter(other) /\ lastOp' = "merge"
    /\ UNCHANGED <<kind, cap, other>>
    /\ UNCHANGED <<strVars, routeVars, devVars, auxVars>>

\* SerialSet::from(coll), OutputSet::from(coll)
SetFrom(target) ==
    /\ kind = "Set" /\ ~panicked
    /\ coll' = from_set(coll, cap) /\ kind' = target
    /\ prev' = coll /\ lastOp' = "from"
    /\ UNCHANGED <<cap, hist, other, panicked>>
    /\ UNCHANGED <<strVars, routeVars, devVars, auxVars>>

\* Self::init(key, value)
MapInit(k, v) ==
    /\ kind \in MapKinds /\ lastOp = "new"
    /\ coll' = map_init(k, v, cap)
    /\ prev' = <<>> /\ hist' = <<(<<k, v>>)>> /\ lastOp' = "init"
    /\ UNCHANGED <<kind, cap, other, panicked>>
    /\ UNCHANGED <<strVars, routeVars, devVars, auxVars>>

\* Self::init_with_elements(&xs)
MapInitWithElements(xs) ==
    /\ kind \in MapKinds /\ lastOp = "new"
    /\ coll' = map_init_with_elements(xs, cap)
    /\ prev' = <<>> /\ hist' = xs /\ lastOp' = "init_with_elements"
    /\ UNCHANGED <<kind, cap, other, panicked>>
    /\ UNCHANGED <<strVars, routeVars, devVars, auxVars>>

\* coll = coll.insert(key, value)
MapInsert(k, v) ==
    /\ kind \in MapKinds /\ ~panicked /\ Len(hist) < MaxOps
    /\ coll' = map_insert(coll, k, v, cap)
    /\ prev' = coll /\ hist' = Append(hist, <<k, v>>) /\ lastOp' = "insert"
    /\ UNCHANGED <<kind, cap, other, panicked>>
    /\ UNCHANGED <<strVars, routeVars, devVars, auxVars>>

\* coll.add(key, value)
MapAdd(k, v) ==
    /\ kind \in MapKinds /\ ~panicked /\ Len(hist) < MaxOps
    /\ coll' = map_add(coll, k, v, cap)
    /\ prev' = coll /\ hist' = Append(hist, <<k, v>>) /\ lastOp' = "add"
    /\ UNCHANGED <<kind, cap, other, panicked>>
    /\ UNCHANGED <<strVars, routeVars, devVars, auxVars>>

\* SerialMap::from(coll), OutputMap::from(coll)
MapFrom(target) ==
    /\ kind = "Map" /\ ~panicked
    /\ coll' = from_map(coll, cap) /\ kind' = target
    /\ prev' = coll /\ lastOp' = "from"
    /\ UNCHANGED <<cap, hist, other, panicked>>
    /\ UNCHANGED <<strVars, routeVars, devVars, auxVars>>

\* coll = coll.bool(name, default)
ParametersBool(name, default) ==
    /\ kind = "Parameters" /\ ~panicked /\ Len(hist) < MaxOps
    /\ coll' = parameters_bool(coll, name, default, cap)
    /\ prev' = coll /\ hist' = Append(hist, <<name, <<"Bool", default>> >>)
    /\ lastOp' = "bool"
    /\ UNCHANGED <<kind, cap, other, panicked>>
    /\ UNCHANGED <<strVars, routeVars, devVars, auxVars>>

\* coll = coll.u8(name, default)
ParametersU8(name, default) ==
    /\ kind = "Parameters" /\ ~panicked /\ Len(hist) < MaxOps
    /\ coll' = parameters_u8(coll, name, default, cap)
    /\ prev' = coll /\ hist' = Append(hist, <<name, <<"U8", default>> >>)
    /\ lastOp' = "u8"
    /\ UNCHANGED <<kind, cap, other, panicked>>
    /\ UNCHANGED <<strVars, routeVars, devVars, auxVars>>

\* coll.serialize_data(): the builder becomes a ParametersData (a SerialMap).
ParametersSerializeData ==
    /\ kind = "Parameters" /\ ~panicked
    /\ coll' = serialize_data(coll, cap) /\ kind' = "SerialMap"
    /\ prev' = coll /\ lastOp' = "serialize_data"
    /\ UNCHANGED <<cap, hist, other, panicked>>
    /\ UNCHANGED <<strVars, routeVars, devVars, auxVars>>

NextColl ==
    \/ \E e \in Elems : SetInit(e)
    \/ \E xs \in SeqsUpTo(Elems, MaxOps) : SetInitWithElements(xs)
    \/ \E e \in Elems : SetInsert(e)
    \/ \E e \in Elems : SetAdd(e)
    \/ \E e \in Elems : OtherAdd(e)
    \/ SetMerge
    \/ \E target \in {"SerialSet", "OutputSet"} : SetFrom(target)
    \/ \E k \in Keys, v \in Vals : MapInit(k, v)
    \/ \E xs \in SeqsUpTo(Keys \X Vals, MaxOps) : MapInitWithElements(xs)
    \/ \E k \in Keys, v \in Vals : MapInsert(k, v)
    \/ \E k \in Keys, v \in Vals : MapAdd(k, v)
    \/ \E target \in {"SerialMap", "OutputMap"} : MapFrom(target)
    \/ \E name \in Keys, default \in BOOLEAN : ParametersBool(name, default)
    \/ \E name \in Keys, default \in U8Defaults : ParametersU8(name, default)
    \/ ParametersSerializeData

Next == NextColl

(***************************************************************************)
(* Fixed-size text: utils/string.rs.  A String<N> wraps a heapless String, *)
(* a vector of at most N bytes that holds UTF-8 text.  A text handed to    *)
(* the program is a sequence of characters.                                *)
(***************************************************************************)
Chars == {"a", "e_acute", "euro"}

\* The UTF-8 encoding of a character: U+0061, U+00E9, U+20AC.
Utf8(c) ==
    CASE c = "a" -> <<97>>
      [] c = "e_acute" -> <<195, 169>>
      [] c = "euro" -> <<226, 130, 172>>

\* str::as_bytes(): the bytes of a text.
RECURSIVE Encode(_)
Encode(text) == IF text = <<>> THEN <<>> ELSE Utf8(Head(text)) \o Encode(Tail(text))

\* The width of a character, from its first byte.
Utf8Width(b) == IF b < 128 THEN 1 ELSE IF b < 224 THEN 2 ELSE 3

\* as_str(): the text the bytes hold.
RECURSIVE as_str(_)
as_str(bytes) ==
    IF bytes = <<>> THEN <<>>
    ELSE LET w == Utf8Width(bytes[1])
         IN  <<CHOOSE c \in Chars : Utf8(c) = SubSeq(bytes, 1, w)>>
                 \o as_str(SubSeq(bytes, w + 1, Len(bytes)))

string_is_empty(bytes) == Len(bytes) = 0

\* The append of the heapless vector, as called by from_str, push_str and
\* push: all the bytes are appended, or none when they do not all fit.
ExtendFromSlice(vec, bytes, n) ==
    IF Len(vec) + Len(bytes) > n THEN [vec |-> vec, ok |-> FALSE]
    ELSE [vec |-> vec \o bytes, ok |-> TRUE]

string_empty == <<>>

\* Mutant of new: the characters are counted, not the bytes.
string_new_by_chars(text, n) ==
    IF Len(text) <= n THEN [ok |-> TRUE, value |-> Encode(text), err |-> "none"]
    ELSE [ok |-> FALSE, value |-> <<>>, err |-> "FixedText"]

\* new(text) -> Result<Self>: from_str pushes the text on an empty string.
string_new(text, n) ==
    LET r == ExtendFromSlice(<<>>, Encode(text), n)
    IN  IF r.ok THEN [ok |-> TRUE, value |-> r.vec, err |-> "none"]
        ELSE [ok |-> FALSE, value |-> <<>>, err |-> "FixedText"]

\* Mutant of infallible: a text that does not fit is cut to the characters
\* that fit.
RECURSIVE FittingPrefix(_, _, _)
FittingPrefix(vec, text, n) ==
    IF text = <<>> \/ Len(vec) + Len(Utf8(Head(text))) > n THEN vec
    ELSE FittingPrefix(vec \o Utf8(Head(text)), Tail(text), n)

string_infallible_cuts(text, n) == FittingPrefix(<<>>, text, n)

\* infallible(text): new(text).unwrap_or(empty())
string_infallible(text, n) ==
    IF string_new(text, n).ok THEN string_new(text, n).value ELSE string_empty

\* Mutant of push: the characters that fit are appended before the error.
string_push_partial(bytes, text, n) ==
    LET r == ExtendFromSlice(bytes, Encode(text), n)
    IN  [ok |-> r.ok, value |-> FittingPrefix(bytes, text, n),
         err |-> IF r.ok THEN "none" ELSE "FixedText"]

\* push(&mut self, text) -> Result<()>
string_push(bytes, text, n) ==
    LET r == ExtendFromSlice(bytes, Encode(text), n)
    IN  [ok |-> r.ok, value |-> r.vec, err |-> IF r.ok THEN "none" ELSE "FixedText"]

\* Mutant of push_char: the room is checked for one byte.
string_push_char_one_byte(bytes, c, n) ==
    IF Len(bytes) + 1 > n THEN [ok |-> FALSE, value |-> bytes, err |-> "FixedText"]
    ELSE [ok |-> TRUE, value |-> bytes \o Utf8(c), err |-> "none"]

\* push_char(&mut self, c) -> Result<()>
string_push_char(bytes, c, n) ==
    LET r == ExtendFromSlice(bytes, Utf8(c), n)
    IN  [ok |-> r.ok, value |-> r.vec, err |-> IF r.ok THEN "none" ELSE "FixedText"]

\* core::fmt::Write::write_str: self.push(s).map_err(|_| core::fmt::Error)
string_write_str(bytes, text, n) ==
    LET r == string_push(bytes, text, n)
    IN  [ok |-> r.ok, value |-> r.value, err |-> IF r.ok THEN "none" ELSE "fmt::Error"]

\* core::fmt::Write::write_char: self.push_char(c).map_err(|_| core::fmt::Error)
string_write_char(bytes, c, n) ==
    LET r == string_push_char(bytes, c, n)
    IN  [ok |-> r.ok, value |-> r.value, err |-> IF r.ok THEN "none" ELSE "fmt::Error"]

(***************************************************************************)
(* The program under analysis holds one String<strCap>: str are its bytes, *)
(* strPrev its bytes before the last call, strOp the name of that call,    *)
(* strArg the text given to it and ret what the call returned: "Ok" or the *)
(* kind of the error.  A constructor that fails leaves the program with    *)
(* the string it had.  The initial state is the one after empty().         *)
(***************************************************************************)
Texts == SeqsUpTo(Chars, MaxTextLen)

InitStr ==
    /\ strCap \in 0..MaxStrCap
    /\ str = string_empty /\ strPrev = <<>> /\ strOp = "empty"
    /\ strArg = <<>> /\ ret = "Ok"

Result(r) == IF r.ok THEN "Ok" ELSE r.err

\* str = String::new(text)?
StrNew(text) ==
    /\ str' = IF string_new(text, strCap).ok THEN string_new(text, strCap).value ELSE str
    /\ ret' = Result(string_new(text, strCap))
    /\ strPrev' = str /\ strOp' = "new" /\ strArg' = text
    /\ UNCHANGED <<strCap, collVars, routeVars, devVars, auxVars>>

\* str = String::infallible(text)
StrInfallible(text) ==
    /\ str' = string_infallible(text, strCap)
    /\ ret' = "Ok"
    /\ strPrev' = str /\ strOp' = "infallible" /\ strArg' = text
    /\ UNCHANGED <<strCap, collVars, routeVars, devVars, auxVars>>

\* str.push(text)
StrPush(text) ==
    /\ str' = string_push(str, text, strCap).value
    /\ ret' = Result(string_push(str, text, strCap))
    /\ strPrev' = str /\ strOp' = "push" /\ strArg' = text
    /\ UNCHANGED <<strCap, collVars, routeVars, devVars, auxVars>>

\* str.push_char(c)
StrPushChar(c) ==
    /\ str' = string_push_char(str, c, strCap).value
    /\ ret' = Result(string_push_char(str, c, strCap))
    /\ strPrev' = str /\ strOp' = "push_char" /\ strArg' = <<c>>
    /\ UNCHANGED <<strCap, collVars, routeVars, devVars, auxVars>>

\* write!(str, ...): str.write_str(text)
StrWriteStr(text) ==
    /\ str' = string_write_str(str, text, strCap).value
    /\ ret' = Result(string_write_str(str, text, strCap))
    /\ strPrev' = str /\ strOp' = "write_str" /\ strArg' = text
    /\ UNCHANGED <<strCap, collVars, routeVars, devVars, auxVars>>

\* str.write_char(c)
StrWriteChar(c) ==
    /\ str' = string_write_char(str, c, strCap).value
    /\ ret' = Result(string_write_char(str, c, strCap))
    /\ strPrev' = str /\ strOp' = "write_char" /\ strArg' = <<c>>
    /\ UNCHANGED <<strCap, collVars, routeVars, devVars, auxVars>>

NextStr ==
    \/ \E text \in Texts : StrNew(text)
    \/ \E text \in Texts : StrInfallible(text)
    \/ \E text \in Texts : StrPush(text)
    \/ \E c \in Chars : StrPushChar(c)
    \/ \E text \in Texts : StrWriteStr(text)
    \/ \E c \in Chars : StrWriteChar(c)

(***************************************************************************)
(* The program under analysis adds range parameters to a Parameters        *)
(* builder of capacity cap, held in coll.  The ranges and defaults are     *)
(* those of the tests ((0, 20, 1) with default 5, (0., 20., 0.1)) and ones  *)
(* that start above zero.                                                  *)
(***************************************************************************)
RangeNames == {"a", "b"}
U64Ranges == {<<0, 20, 1>>, <<10, 20, 1>>}
U64RangeDefaults == {5}
F64Ranges == {<<0, 200, 1>>, <<100, 200, 1>>}
F64RangeDefaults == {150}

InitRange ==
    /\ kind = "Parameters"
    /\ cap \in Capacities
    /\ coll = parameters_new
    /\ prev = <<>>
    /\ hist = <<>>
    /\ lastOp = "new"
    /\ other = <<>>
    /\ panicked = FALSE

\* coll = coll.rangeu64(name, range)
ParametersRangeU64(name, range) ==
    /\ Len(hist) < MaxOps
    /\ coll' = parameters_rangeu64(coll, name, range, cap)
    /\ prev' = coll /\ hist' = Append(hist, <<name, <<"rangeu64", range>> >>)
    /\ lastOp' = "rangeu64"
    /\ UNCHANGED <<kind, cap, other, panicked>>
    /\ UNCHANGED <<strVars, routeVars, devVars, auxVars>>

\* coll = coll.rangeu64_with_default(name, range, default)
ParametersRangeU64WithDefault(name, range, default) ==
    /\ Len(hist) < MaxOps
    /\ coll' = parameters_rangeu64_with_default(coll, name, range, default, cap)
    /\ prev' = coll /\ hist' = Append(hist, <<name, <<"rangeu64", range, default>> >>)
    /\ lastOp' = "rangeu64_with_default"
    /\ UNCHANGED <<kind, cap, other, panicked>>
    /\ UNCHANGED <<strVars, routeVars, devVars, auxVars>>

\* coll = coll.rangef64(name, range)
ParametersRangeF64(name, range) ==
    /\ Len(hist) < MaxOps
    /\ coll' = parameters_rangef64(coll, name, range, cap)
    /\ prev' = coll /\ hist' = Append(hist, <<name, <<"rangef64", range>> >>)
    /\ lastOp' = "rangef64"
    /\ UNCHANGED <<kind, cap, other, panicked>>
    /\ UNCHANGED <<strVars, routeVars, devVars, auxVars>>

\* coll = coll.rangef64_with_default(name, range, default)
ParametersRangeF64WithDefault(name, range, default) ==
    /\ Len(hist) < MaxOps
    /\ coll' = parameters_rangef64_with_default(coll, name, range, default, cap)
    /\ prev' = coll /\ hist' = Append(hist, <<name, <<"rangef64", range, default>> >>)
    /\ lastOp' = "rangef64_with_default"
    /\ UNCHANGED <<kind, cap, other, panicked>>
    /\ UNCHANGED <<strVars, routeVars, devVars, auxVars>>

NextRange ==
    \/ \E name \in RangeNames, range \in U64Ranges : ParametersRangeU64(name, range)
    \/ \E name \in RangeNames, range \in U64Ranges, default \in U64RangeDefaults :
          ParametersRangeU64WithDefault(name, range, default)
    \/ \E name \in RangeNames, range \in F64Ranges : ParametersRangeF64(name, range)
    \/ \E name \in RangeNames, range \in F64Ranges, default \in F64RangeDefaults :
          ParametersRangeF64WithDefault(name, range, default)

(***************************************************************************)
(* Routes: route.rs.  A Route<H, P> is a record that carries its two        *)
(* capacities next to its fields.  An Option is <<>> for None and <<x>> for *)
(* Some(x).  What a value feeds to a Hasher is the sequence of the items    *)
(* hashed, an Option feeding its variant before its content.                *)
(***************************************************************************)
RestKinds == {"Get", "Put", "Post", "Delete"}

OptionHash(o) == IF o = <<>> THEN <<"None">> ELSE <<"Some", o[1]>>

\* Route::init(rest_kind, route)
route_init(rest_kind, route) ==
    [H |-> 2, P |-> 2, name |-> route, rest_kind |-> rest_kind,
     description |-> <<>>, parameters |-> parameters_new, hazards |-> set_new]

route_get(route) == route_init("Get", route)
route_put(route) == route_init("Put", route)
route_post(route) == route_init("Post", route)
route_delete(route) == route_init("Delete", route)

route_description(r, description) == [r EXCEPT !.description = <<description>>]

route_change_route(r, route) == [r EXCEPT !.name = route]

\* Mutant of with_hazards: the parameters are reset.
route_with_hazards_resets(r, h2, hazards) ==
    [H |-> h2, P |-> r.P, name |-> r.name, rest_kind |-> r.rest_kind,
     description |-> r.description, parameters |-> parameters_new,
     hazards |-> hazards]

\* with_hazards::<H2>(self, hazards)
route_with_hazards(r, h2, hazards) ==
    [H |-> h2, P |-> r.P, name |-> r.name, rest_kind |-> r.rest_kind,
     description |-> r.description, parameters |-> r.parameters,
     hazards |-> hazards]

\* with_parameters::<P2>(self, parameters)
route_with_parameters(r, p2, parameters) ==
    [H |-> r.H, P |-> p2, name |-> r.name, rest_kind |-> r.rest_kind,
     description |-> r.description, parameters |-> parameters,
     hazards |-> r.hazards]

\* impl PartialEq for Route
route_eq(a, b) == a.name = b.name /\ a.rest_kind = b.rest_kind

\* impl Hash for Route
route_hash(r) == <<r.name, r.rest_kind>> \o OptionHash(r.description)

\* Mutant of RouteData::new: the description is not carried over.
route_data_new_no_description(r) ==
    [name |-> r.name, description |-> <<>>, hazards |-> r.hazards,
     parameters |-> serialize_data(r.parameters, r.P)]

\* RouteData::new(route)
route_data_new(r) ==
    [name |-> r.name, description |-> r.description, hazards |-> r.hazards,
     parameters |-> serialize_data(r.parameters, r.P)]

\* impl PartialEq for RouteData
route_data_eq(a, b) == a.name = b.name

\* ResponseKind::default()
ResponseKindDefault == "Ok"

\* RouteConfig::new(route)
route_config_new(r) ==
    [H |-> r.H, P |-> r.P, rest_kind |-> r.rest_kind,
     response_kind |-> ResponseKindDefault, data |-> route_data_new(r)]

\* impl PartialEq for RouteConfig
route_config_eq(a, b) == route_data_eq(a.data, b.data) /\ a.rest_kind = b.rest_kind

\* Mutant of Hash for RouteConfig: the description is hashed too.
route_config_hash_description(c) ==
    <<c.data.name, c.rest_kind>> \o OptionHash(c.data.description)

\* impl Hash for RouteConfig
route_config_hash(c) == <<c.data.name, c.rest_kind>>

\* Route::serialize_data(self)
route_serialize_data(r) == route_config_new(r)

\* The encoded form of a struct is the sequence of its <<field, value>>
\* pairs, in the order of the declaration.
Field(name, value) == << <<name, value>> >>

\* Mutant of the encoding of RouteData: a description of None is left out.
encode_route_data_skips_none(d) ==
    Field("name", d.name)
    \o (IF d.description = <<>> THEN <<>> ELSE Field("description", d.description))
    \o (IF set_is_empty(d.hazards) THEN <<>> ELSE Field("hazards", d.hazards))
    \o (IF map_is_empty(d.parameters) THEN <<>> ELSE Field("parameters", d.parameters))

\* #[derive(Serialize)] for RouteData, with its skip_serializing_if attributes.
encode_route_data(d) ==
    Field("name", d.name)
    \o Field("description", d.description)
    \o (IF set_is_empty(d.hazards) THEN <<>> ELSE Field("hazards", d.hazards))
    \o (IF map_is_empty(d.parameters) THEN <<>> ELSE Field("parameters", d.parameters))

\* #[derive(Serialize)] for RouteConfig: data is flattened.
encode_route_config(c) ==
    encode_route_data(c.data)
    \o Field("REST kind", c.rest_kind)
    \o Field("response kind", c.response_kind)

(***************************************************************************)
(* The program under analysis builds two routes and finalizes them.        *)
(* routes[i] is the builder (kept as it was when serialize_data consumed    *)
(* it), ctor[i] the constructor that made it, configs[i] the RouteConfig    *)
(* once the route is finalized, as an Option.                              *)
(***************************************************************************)
RouteIds == {1, 2}
RouteNames == {"/on", "/off"}
Descriptions == {"light"}
Constructors == {"get", "put", "post", "delete"}
ArgCapacities == {4}

\* The collections handed to with_hazards and with_parameters, built by the
\* calls of the tests: Hazards::<N>::new().insert(..).insert(..) and
\* Parameters::<N>::new().u8(..).bool(..).
HazardsArgs(n) == {set_new, set_insert(set_insert(set_new, "B", n), "A", n)}
ParametersArgs(n) ==
    {parameters_new,
     parameters_bool(parameters_u8(parameters_new, "b", 9, n), "a", TRUE, n)}

Construct(c, route) ==
    CASE c = "get" -> route_get(route)
      [] c = "put" -> route_put(route)
      [] c = "post" -> route_post(route)
      [] c = "delete" -> route_delete(route)

InitRoutes ==
    /\ ctor \in [RouteIds -> Constructors]
    /\ \E names \in [RouteIds -> RouteNames] :
          routes = [i \in RouteIds |-> Construct(ctor[i], names[i])]
    /\ configs = [i \in RouteIds |-> <<>>]

\* routes[i] = routes[i].description(description)
RouteDescription(i, description) ==
    /\ configs[i] = <<>>
    /\ routes' = [routes EXCEPT ![i] = route_description(@, description)]
    /\ UNCHANGED <<ctor, configs, collVars, strVars, devVars, auxVars>>

\* routes[i] = routes[i].change_route(route)
RouteChangeRoute(i, route) ==
    /\ configs[i] = <<>>
    /\ routes' = [routes EXCEPT ![i] = route_change_route(@, route)]
    /\ UNCHANGED <<ctor, configs, collVars, strVars, devVars, auxVars>>

\* routes[i] = routes[i].with_hazards(hazards)
RouteWithHazards(i, h2, hazards) ==
    /\ configs[i] = <<>>
    /\ routes' = [routes EXCEPT ![i] = route_with_hazards(@, h2, hazards)]
    /\ UNCHANGED <<ctor, configs, collVars, strVars, devVars, auxVars>>

\* routes[i] = routes[i].with_parameters(parameters)
RouteWithParameters(i, p2, parameters) ==
    /\ configs[i] = <<>>
    /\ routes' = [routes EXCEPT ![i] = route_with_parameters(@, p2, parameters)]
    /\ UNCHANGED <<ctor, configs, collVars, strVars, devVars, auxVars>>

\* configs[i] = Some(routes[i].serialize_data())
RouteSerializeData(i) ==
    /\ configs[i] = <<>>
    /\ configs' = [configs EXCEPT ![i] = <<route_serialize_data(routes[i])>>]
    /\ UNCHANGED <<routes, ctor, collVars, strVars, devVars, auxVars>>

NextRoute ==
    \/ \E i \in RouteIds, d \in Descriptions : RouteDescription(i, d)
    \/ \E i \in RouteIds, route \in RouteNames : RouteChangeRoute(i, route)
    \/ \E i \in RouteIds, h2 \in ArgCapacities :
          \E hazards \in HazardsArgs(h2) : RouteWithHazards(i, h2, hazards)
    \/ \E i \in RouteIds, p2 \in ArgCapacities :
          \E parameters \in ParametersArgs(p2) : RouteWithParameters(i, p2, parameters)
    \/ \E i \in RouteIds : RouteSerializeData(i)

(***************************************************************************)
(* Device information: energy.rs, economy.rs, device.rs.  The capacities   *)
(* of the sets take no part in what is encoded and are left out.           *)
(***************************************************************************)
energy_empty ==
    [energy_efficiencies |-> <<>>, carbon_footprints |-> <<>>,
     water_use_efficiency |-> <<>>]

energy_init_with_energy_efficiencies(energy_efficiencies) ==
    [energy_efficiencies |-> <<energy_efficiencies>>, carbon_footprints |-> <<>>,
     water_use_efficiency |-> <<>>]

energy_init_with_carbon_footprints(carbon_footprints) ==
    [energy_efficiencies |-> <<>>, carbon_footprints |-> <<carbon_footprints>>,
     water_use_efficiency |-> <<>>]

energy_init_with_water_use_efficiency(water_use_efficiency) ==
    [energy_efficiencies |-> <<>>, carbon_footprints |-> <<>>,
     water_use_efficiency |-> <<water_use_efficiency>>]

energy_energy_efficiencies(e, energy_efficiencies) ==
    [energy_efficiencies |-> <<energy_efficiencies>>,
     carbon_footprints |-> e.carbon_footprints,
     water_use_efficiency |-> e.water_use_efficiency]

energy_carbon_footprints(e, carbon_footprints) ==
    [energy_efficiencies |-> e.energy_efficiencies,
     carbon_footprints |-> <<carbon_footprints>>,
     water_use_efficiency |-> e.water_use_efficiency]

\* Mutant of water_use_efficiency: the record is started anew.
energy_water_use_efficiency_only(e, water_use_efficiency) ==
    [energy_efficiencies |-> <<>>, carbon_footprints |-> <<>>,
     water_use_efficiency |-> <<water_use_efficiency>>]

energy_water_use_efficiency(e, water_use_efficiency) ==
    [e EXCEPT !.water_use_efficiency = <<water_use_efficiency>>]

\* Mutant of Energy::is_empty: the water use efficiency is not looked at.
energy_is_empty_two_fields(e) ==
    e.energy_efficiencies = <<>> /\ e.carbon_footprints = <<>>

energy_is_empty(e) ==
    /\ e.energy_efficiencies = <<>>
    /\ e.carbon_footprints = <<>>
    /\ e.water_use_efficiency = <<>>

economy_empty == [costs |-> <<>>, roi |-> <<>>]

economy_init_with_costs(costs) == [costs |-> <<costs>>, roi |-> <<>>]

economy_init_with_roi(roi) == [costs |-> <<>>, roi |-> <<roi>>]

economy_costs(e, costs) == [costs |-> <<costs>>, roi |-> e.roi]

economy_rois(e, roi) == [costs |-> e.costs, roi |-> <<roi>>]

economy_is_empty(e) == e.costs = <<>> /\ e.roi = <<>>

device_info_empty == [energy |-> energy_empty, economy |-> economy_empty]

add_energy(i, e) == [energy |-> e, economy |-> i.economy]

add_economy(i, e) == [energy |-> i.energy, economy |-> e]

\* #[serde(skip_serializing_if = "Option::is_none")]
OptionField(name, o) == IF o = <<>> THEN <<>> ELSE Field(name, o[1])

\* #[derive(Serialize)] for Energy
encode_energy(e) ==
    OptionField("energy-efficiencies", e.energy_efficiencies)
    \o OptionField("carbon-footprints", e.carbon_footprints)
    \o OptionField("water-use-efficiency", e.water_use_efficiency)

\* #[derive(Serialize)] for Economy
encode_economy(e) == OptionField("costs", e.costs) \o OptionField("roi", e.roi)

\* #[derive(Serialize)] for DeviceInfo
encode_device_info(i) ==
    (IF economy_is_empty(i.economy) THEN <<>>
     ELSE Field("economy", encode_economy(i.economy)))
    \o (IF energy_is_empty(i.energy) THEN <<>>
        ELSE Field("energy", encode_energy(i.energy)))

(***************************************************************************)
(* The program under analysis builds an Energy and an Economy, and adds    *)
(* copies of them (both are Clone) to a DeviceInfo.  devOp is the name of  *)
(* the last call.                                                          *)
(***************************************************************************)
EfficienciesArgs == {set_new, set_init("A", 2)}
FootprintsArgs == {set_init("B", 2)}
WaterUseArgs == {"wue"}
CostsArgs == {set_init("C", 2)}
RoisArgs == {set_init("A", 2)}

InitDevice ==
    /\ energy = energy_empty
    /\ economy = economy_empty
    /\ info = device_info_empty
    /\ devOp = "empty"

EnergyEmpty ==
    /\ energy' = energy_empty /\ devOp' = "Energy::empty"
    /\ UNCHANGED <<economy, info, collVars, strVars, routeVars, auxVars>>

EnergyInitWithEnergyEfficiencies(x) ==
    /\ energy' = energy_init_with_energy_efficiencies(x)
    /\ devOp' = "init_with_energy_efficiencies"
    /\ UNCHANGED <<economy, info, collVars, strVars, routeVars, auxVars>>

EnergyInitWithCarbonFootprints(x) ==
    /\ energy' = energy_init_with_carbon_footprints(x)
    /\ devOp' = "init_with_carbon_footprints"
    /\ UNCHANGED <<economy, info, collVars, strVars, routeVars, auxVars>>

EnergyInitWithWaterUseEfficiency(x) ==
    /\ energy' = energy_init_with_water_use_efficiency(x)
    /\ devOp' = "init_with_water_use_efficiency"
    /\ UNCHANGED <<economy, info, collVars, strVars, routeVars, auxVars>>

EnergyEnergyEfficiencies(x) ==
    /\ energy' = energy_energy_efficiencies(energy, x)
    /\ devOp' = "energy_efficiencies"
    /\ UNCHANGED <<economy, info, collVars, strVars, routeVars, auxVars>>

EnergyCarbonFootprints(x) ==
    /\ energy' = energy_carbon_footprints(energy, x)
    /\ devOp' = "carbon_footprints"
    /\ UNCHANGED <<economy, info, collVars, strVars, routeVars, auxVars>>

EnergyWaterUseEfficiency(x) ==
    /\ energy' = energy_water_use_efficiency(energy, x)
    /\ devOp' = "water_use_efficiency"
    /\ UNCHANGED <<economy, info, collVars, strVars, routeVars, auxVars>>

EconomyEmpty ==
    /\ economy' = economy_empty /\ devOp' = "Economy::empty"
    /\ UNCHANGED <<energy, info, collVars, strVars, routeVars, auxVars>>

EconomyInitWithCosts(x) ==
    /\ economy' = economy_init_with_costs(x) /\ devOp' = "init_with_costs"
    /\ UNCHANGED <<energy, info, collVars, strVars, routeVars, auxVars>>

EconomyInitWithRoi(x) ==
    /\ economy' = economy_init_with_roi(x) /\ devOp' = "init_with_roi"
    /\ UNCHANGED <<energy, info, collVars, strVars, routeVars, auxVars>>

EconomyCosts(x) ==
    /\ economy' = economy_costs(economy, x) /\ devOp' = "costs"
    /\ UNCHANGED <<energy, info, collVars, strVars, routeVars, auxVars>>

EconomyRois(x) ==
    /\ economy' = economy_rois(economy, x) /\ devOp' = "rois"
    /\ UNCHANGED <<energy, info, collVars, strVars, routeVars, auxVars>>

\* info = info.add_energy(energy.clone())
AddEnergy ==
    /\ info' = add_energy(info, energy) /\ devOp' = "add_energy"
    /\ UNCHANGED <<energy, economy, collVars, strVars, routeVars, auxVars>>

\* info = info.add_economy(economy.clone())
AddEconomy ==
    /\ info' = add_economy(info, economy) /\ devOp' = "add_economy"
    /\ UNCHANGED <<energy, economy, collVars, strVars, routeVars, auxVars>>

NextDevice ==
    \/ EnergyEmpty
    \/ \E x \in EfficienciesArgs : EnergyInitWithEnergyEfficiencies(x)
    \/ \E x \in FootprintsArgs : EnergyInitWithCarbonFootprints(x)
    \/ \E x \in WaterUseArgs : EnergyInitWithWaterUseEfficiency(x)
    \/ \E x \in EfficienciesArgs : EnergyEnergyEfficiencies(x)
    \/ \E x \in FootprintsArgs : EnergyCarbonFootprints(x)
    \/ \E x \in WaterUseArgs : EnergyWaterUseEfficiency(x)
    \/ EconomyEmpty
    \/ \E x \in CostsArgs : EconomyInitWithCosts(x)
    \/ \E x \in RoisArgs : EconomyInitWithRoi(x)
    \/ \E x \in CostsArgs : EconomyCosts(x)
    \/ \E x \in RoisArgs : EconomyRois(x)
    \/ AddEnergy
    \/ AddEconomy

(***************************************************************************)
(* Errors: error.rs.  The text an error is displayed as is the sequence of  *)
(* the characters written to the formatter.  The cause of an error is any   *)
(* text.                                                                    *)
(***************************************************************************)
ErrorKinds == {"FixedText"}

\* ErrorKind::description
error_kind_description(k) ==
    CASE k = "FixedText" ->
        <<"F", "i", "x", "e", "d", "-", "s", "i", "z", "e", " ", "t", "e", "x", "t">>

\* impl Display for ErrorKind
error_kind_fmt(k) == error_kind_description(k)

\* Error::new(kind, info)
error_new(k, i) == [kind |-> k, info |-> i]

\* impl Display for Error: writeln!(f, "{}: {} ", self.kind, self.info)
error_fmt(e) ==
    error_kind_fmt(e.kind) \o <<":", " ">> \o e.info \o <<" ">> \o <<"\n">>

(***************************************************************************)
(* The program under analysis creates errors and displays them.  err is    *)
(* the error at hand; shown is <<>> until an error is displayed and then   *)
(* holds the error displayed last and the text written for it.             *)
(***************************************************************************)
InitError ==
    /\ err \in {error_new(k, i) : k \in ErrorKinds, i \in Texts}
    /\ shown = <<>>

\* err = Error::new(kind, info)
ErrorNew(k, i) ==
    /\ err' = error_new(k, i)
    /\ UNCHANGED <<shown, respVars, buildVars, collVars, strVars, routeVars, devVars>>

\* write!(out, "{}", err)
ErrorDisplay ==
    /\ shown' = <<err, error_fmt(err)>>
    /\ UNCHANGED <<err, respVars, buildVars, collVars, strVars, routeVars, devVars>>

NextError ==
    \/ \E k \in ErrorKinds, i \in Texts : ErrorNew(k, i)
    \/ ErrorDisplay

(***************************************************************************)
(* Error responses: response.rs.  An ErrorResponse<N> holds its kind, a    *)
(* description and an optional information text, both String<N>.           *)
(***************************************************************************)
ResponseErrorKinds == {"InvalidData", "Internal"}

error_response_with_description(error, description, n) ==
    [error |-> error, description |-> string_infallible(description, n),
     info |-> <<>>]

\* Mutant of with_description_error: an information text that does not fit
\* is cut to the characters that fit.
error_response_with_description_error_cuts(error, description, information, n) ==
    [error |-> error, description |-> string_infallible(description, n),
     info |-> <<string_infallible_cuts(information, n)>>]

error_response_with_description_error(error, description, information, n) ==
    [error |-> error, description |-> string_infallible(description, n),
     info |-> <<string_infallible(information, n)>>]

error_response_invalid_data(description, n) ==
    error_response_with_description("InvalidData", description, n)

error_response_invalid_data_with_error(description, information, n) ==
    error_response_with_description_error("InvalidData", description, information, n)

error_response_internal(description, n) ==
    error_response_with_description("Internal", description, n)

error_response_internal_with_error(description, information, n) ==
    error_response_with_description_error("Internal", description, information, n)

(***************************************************************************)
(* The program under analysis creates one error response of capacity       *)
(* strCap.  resp is the response once created, as an Option, respOp the    *)
(* constructor that made it and respGiven the description and the          *)
(* information text handed to it, the latter as an Option.                 *)
(***************************************************************************)
InitResponse ==
    /\ strCap \in 0..MaxStrCap
    /\ str = string_empty /\ strPrev = <<>> /\ strOp = "empty"
    /\ strArg = <<>> /\ ret = "Ok"
    /\ resp = <<>> /\ respOp = "none" /\ respGiven = <<>>

WithDescription(error, description) ==
    /\ resp = <<>>
    /\ resp' = <<error_response_with_description(error, description, strCap)>>
    /\ respOp' = "with_description" /\ respGiven' = <<description, <<>> >>
    /\ UNCHANGED <<errVars, buildVars, collVars, strVars, routeVars, devVars>>

WithDescriptionError(error, description, information) ==
    /\ resp = <<>>
    /\ resp' = <<error_response_with_description_error(error, description,
                                                       information, strCap)>>
    /\ respOp' = "with_description_error"
    /\ respGiven' = <<description, <<information>> >>
    /\ UNCHANGED <<errVars, buildVars, collVars, strVars, routeVars, devVars>>

InvalidData(description) ==
    /\ resp = <<>>
    /\ resp' = <<error_response_invalid_data(description, strCap)>>
    /\ respOp' = "invalid_data" /\ respGiven' = <<description, <<>> >>
    /\ UNCHANGED <<errVars, buildVars, collVars, strVars, routeVars, devVars>>

InvalidDataWithError(description, information) ==
    /\ resp = <<>>
    /\ resp' = <<error_response_invalid_data_with_error(description, information, strCap)>>
    /\ respOp' = "invalid_data_with_error"
    /\ respGiven' = <<description, <<information>> >>
    /\ UNCHANGED <<errVars, buildVars, collVars, strVars, routeVars, devVars>>

Internal(description) ==
    /\ resp = <<>>
    /\ resp' = <<error_response_internal(description, strCap)>>
    /\ respOp' = "internal" /\ respGiven' = <<description, <<>> >>
    /\ UNCHANGED <<errVars, buildVars, collVars, strVars, routeVars, devVars>>

InternalWithError(description, information) ==
    /\ resp = <<>>
    /\ resp' = <<error_response_internal_with_error(description, information, strCap)>>
    /\ respOp' = "internal_with_error"
    /\ respGiven' = <<description, <<information>> >>
    /\ UNCHANGED <<errVars, buildVars, collVars, strVars, routeVars, devVars>>

NextResponse ==
    \/ \E error \in ResponseErrorKinds, d \in Texts : WithDescription(error, d)
    \/ \E error \in ResponseErrorKinds, d \in Texts, i \in Texts :
          WithDescriptionError(error, d, i)
    \/ \E d \in Texts : InvalidData(d)
    \/ \E d \in Texts, i \in Texts : InvalidDataWithError(d, i)
    \/ \E d \in Texts : Internal(d)
    \/ \E d \in Texts, i \in Texts : InternalWithError(d, i)

(***************************************************************************)
(* The program under analysis makes one builder of type subject (a Route,  *)
(* an Energy, an Economy or a DeviceInfo, held in routes[1], energy,       *)
(* economy and info) and chains builder calls on it.  call is the name of  *)
(* the last call, arg its arguments and before the builder as it was       *)
(* before that call.                                                       *)
(***************************************************************************)
Subjects == {"Route", "Energy", "Economy", "DeviceInfo"}

\* The records handed to add_energy and add_economy.
EnergyArgs ==
    {energy_empty,
     energy_init_with_water_use_efficiency("wue"),
     energy_carbon_footprints(
         energy_init_with_energy_efficiencies(set_init("A", 2)), set_init("B", 2))}

EconomyArgs ==
    {economy_empty,
     economy_init_with_roi(set_init("A", 2)),
     economy_rois(economy_init_with_costs(set_init("C", 2)), set_init("A", 2))}

InitBuilder ==
    /\ subject \in Subjects
    /\ before = <<>> /\ call = "new" /\ arg = <<>>
    /\ configs = [i \in RouteIds |-> <<>>]
    /\ IF subject = "Route"
       THEN /\ ctor \in [RouteIds -> Constructors] /\ ctor[2] = "get"
            /\ \E route \in RouteNames :
                  routes = [i \in RouteIds |->
                               IF i = 1 THEN Construct(ctor[1], route)
                               ELSE route_get("/on")]
       ELSE /\ ctor = [i \in RouteIds |-> "get"]
            /\ routes = [i \in RouteIds |-> route_get("/on")]
    /\ IF subject = "Energy"
       THEN energy \in
                {energy_empty}
                \cup {energy_init_with_energy_efficiencies(x) : x \in EfficienciesArgs}
                \cup {energy_init_with_carbon_footprints(x) : x \in FootprintsArgs}
                \cup {energy_init_with_water_use_efficiency(x) : x \in WaterUseArgs}
       ELSE energy = energy_empty
    /\ IF subject = "Economy"
       THEN economy \in
                {economy_empty}
                \cup {economy_init_with_costs(x) : x \in CostsArgs}
                \cup {economy_init_with_roi(x) : x \in RoisArgs}
       ELSE economy = economy_empty
    /\ info = device_info_empty
    /\ devOp = "empty"

\* The variables a call on the route leaves alone, and likewise for the
\* other builders.
RouteRest == <<ctor, configs, energy, economy, info, devOp, subject>>
EnergyRest == <<routes, ctor, configs, economy, info, devOp, subject>>
EconomyRest == <<routes, ctor, configs, energy, info, devOp, subject>>
InfoRest == <<routes, ctor, configs, energy, economy, devOp, subject>>
OthersRest == <<errVars, respVars, collVars, strVars>>

BuildDescription(description) ==
    /\ subject = "Route"
    /\ routes' = [routes EXCEPT ![1] = route_description(@, description)]
    /\ before' = routes[1] /\ call' = "description" /\ arg' = <<description>>
    /\ UNCHANGED <<RouteRest, OthersRest>>

BuildChangeRoute(route) ==
    /\ subject = "Route"
    /\ routes' = [routes EXCEPT ![1] = route_change_route(@, route)]
    /\ before' = routes[1] /\ call' = "change_route" /\ arg' = <<route>>
    /\ UNCHANGED <<RouteRest, OthersRest>>

BuildWithHazards(h2, hazards) ==
    /\ subject = "Route"
    /\ routes' = [routes EXCEPT ![1] = route_with_hazards(@, h2, hazards)]
    /\ before' = routes[1] /\ call' = "with_hazards" /\ arg' = <<h2, hazards>>
    /\ UNCHANGED <<RouteRest, OthersRest>>

BuildWithParameters(p2, parameters) ==
    /\ subject = "Route"
    /\ routes' = [routes EXCEPT ![1] = route_with_parameters(@, p2, parameters)]
    /\ before' = routes[1] /\ call' = "with_parameters" /\ arg' = <<p2, parameters>>
    /\ UNCHANGED <<RouteRest, OthersRest>>

BuildEnergyEfficiencies(x) ==
    /\ subject = "Energy"
    /\ energy' = energy_energy_efficiencies(energy, x)
    /\ before' = energy /\ call' = "energy_efficiencies" /\ arg' = <<x>>
    /\ UNCHANGED <<EnergyRest, OthersRest>>

BuildCarbonFootprints(x) ==
    /\ subject = "Energy"
    /\ energy' = energy_carbon_footprints(energy, x)
    /\ before' = energy /\ call' = "carbon_footprints" /\ arg' = <<x>>
    /\ UNCHANGED <<EnergyRest, OthersRest>>

BuildWaterUseEfficiency(x) ==
    /\ subject = "Energy"
    /\ energy' = energy_water_use_efficiency(energy, x)
    /\ before' = energy /\ call' = "water_use_efficiency" /\ arg' = <<x>>
    /\ UNCHANGED <<EnergyRest, OthersRest>>

BuildCosts(x) ==
    /\ subject = "Economy"
    /\ economy' = economy_costs(economy, x)
    /\ before' = economy /\ call' = "costs" /\ arg' = <<x>>
    /\ UNCHANGED <<EconomyRest, OthersRest>>

BuildRois(x) ==
    /\ subject = "Economy"
    /\ economy' = economy_rois(economy, x)
    /\ before' = economy /\ call' = "rois" /\ arg' = <<x>>
    /\ UNCHANGED <<EconomyRest, OthersRest>>

BuildAddEnergy(e) ==
    /\ subject = "DeviceInfo"
    /\ info' = add_energy(info, e)
    /\ before' = info /\ call' = "add_energy" /\ arg' = <<e>>
    /\ UNCHANGED <<InfoRest, OthersRest>>

BuildAddEconomy(e) ==
    /\ subject = "DeviceInfo"
    /\ info' = add_economy(info, e)
    /\ before' = info /\ call' = "add_economy" /\ arg' = <<e>>
    /\ UNCHANGED <<InfoRest, OthersRest>>

NextBuilder ==
    \/ \E d \in Descriptions : BuildDescription(d)
    \/ \E route \in RouteNames : BuildChangeRoute(route)
    \/ \E h2 \in ArgCapacities : \E hazards \in HazardsArgs(h2) :
          BuildWithHazards(h2, hazards)
    \/ \E p2 \in ArgCapacities : \E parameters \in ParametersArgs(p2) :
          BuildWithParameters(p2, parameters)
    \/ \E x \in EfficienciesArgs : BuildEnergyEfficiencies(x)
    \/ \E x \in FootprintsArgs : BuildCarbonFootprints(x)
    \/ \E x \in WaterUseArgs : BuildWaterUseEfficiency(x)
    \/ \E x \in CostsArgs : BuildCosts(x)
    \/ \E x \in RoisArgs : BuildRois(x)
    \/ \E e \in EnergyArgs : BuildAddEnergy(e)
    \/ \E e \in EconomyArgs : BuildAddEconomy(e)

(***************************************************************************)
(* The program under analysis builds a collection as above and queries it. *)
(* A query takes &self: it returns its answer and leaves the collection as *)
(* it is.  The three variants of a set, and of a map, are instances of one *)
(* macro; the queries are analysed on Set and Map and on what From makes   *)
(* of them.                                                                *)
(***************************************************************************)
InitQuery == InitColl /\ kind \in {"Set", "Map"}

Asked(name) ==
    /\ ~panicked
    /\ prev' = coll /\ lastOp' = name
    /\ UNCHANGED <<kind, cap, coll, hist, other, panicked>>
    /\ UNCHANGED <<strVars, routeVars, devVars, auxVars>>

SetIsEmpty == kind \in SetKinds /\ set_is_empty(coll) \in BOOLEAN /\ Asked("is_empty")

SetLen == kind \in SetKinds /\ set_len(coll) \in 0..cap /\ Asked("len")

SetContains(e) == kind \in SetKinds /\ set_contains(coll, e) \in BOOLEAN /\ Asked("contains")

SetIter == kind \in SetKinds /\ Len(set_iter(coll)) \in 0..cap /\ Asked("iter")

MapIsEmpty == kind \in MapKinds /\ map_is_empty(coll) \in BOOLEAN /\ Asked("is_empty")

MapLen == kind \in MapKinds /\ map_len(coll) \in 0..cap /\ Asked("len")

MapContainsKey(k) ==
    kind \in MapKinds /\ map_contains_key(coll, k) \in BOOLEAN /\ Asked("contains_key")

MapIter == kind \in MapKinds /\ Len(map_iter(coll)) \in 0..cap /\ Asked("iter")

NextQuery ==
    \/ \E e \in Elems : SetInit(e)
    \/ \E xs \in SeqsUpTo(Elems, MaxOps) : SetInitWithElements(xs)
    \/ \E e \in Elems : SetInsert(e)
    \/ \E e \in Elems : SetAdd(e)
    \/ \E e \in Elems : OtherAdd(e)
    \/ SetMerge
    \/ \E target \in {"SerialSet", "OutputSet"} : SetFrom(target)
    \/ \E k \in Keys, v \in Vals : MapInit(k, v)
    \/ \E xs \in SeqsUpTo(Keys \X Vals, MaxOps) : MapInitWithElements(xs)
    \/ \E k \in Keys, v \in Vals : MapInsert(k, v)
    \/ \E k \in Keys, v \in Vals : MapAdd(k, v)
    \/ \E target \in {"SerialMap", "OutputMap"} : MapFrom(target)
    \/ SetIsEmpty
    \/ SetLen
    \/ \E e \in Elems : SetContains(e)
    \/ SetIter
    \/ MapIsEmpty
    \/ MapLen
    \/ \E k \in Keys : MapContainsKey(k)
    \/ MapIter

\* Each specification analyses one component and keeps the variables of the
\* others at rest.
CollIdle ==
    /\ kind = "Set" /\ cap = 2 /\ coll = <<>> /\ prev = <<>> /\ hist = <<>>
    /\ lastOp = "new" /\ other = <<>> /\ panicked = FALSE

StrIdle ==
    /\ str = <<>> /\ strCap = 0 /\ strPrev = <<>> /\ strOp = "empty"
    /\ strArg = <<>> /\ ret = "Ok"

RouteIdle ==
    /\ routes = [i \in RouteIds |-> route_get("/on")]
    /\ ctor = [i \in RouteIds |-> "get"]
    /\ configs = [i \in RouteIds |-> <<>>]

DevIdle == InitDevice

ErrIdle == err = error_new("FixedText", <<>>) /\ shown = <<>>

RespIdle == resp = <<>> /\ respOp = "none" /\ respGiven = <<>>

BuildIdle == subject = "Route" /\ before = <<>> /\ call = "new" /\ arg = <<>>

AuxIdle == ErrIdle /\ RespIdle /\ BuildIdle

Init == InitColl /\ StrIdle /\ RouteIdle /\ DevIdle /\ AuxIdle

Spec == Init /\ [][Next]_vars

InitText == InitStr /\ CollIdle /\ RouteIdle /\ DevIdle /\ AuxIdle

SpecStr == InitText /\ [][NextStr]_vars

InitRanges == InitRange /\ StrIdle /\ RouteIdle /\ DevIdle /\ AuxIdle

SpecRange == InitRanges /\ [][NextRange]_vars

InitRoute == InitRoutes /\ CollIdle /\ StrIdle /\ DevIdle /\ AuxIdle

SpecRoute == InitRoute /\ [][NextRoute]_vars

InitInfo == InitDevice /\ CollIdle /\ StrIdle /\ RouteIdle /\ AuxIdle

SpecDevice == InitInfo /\ [][NextDevice]_vars

InitErrors ==
    InitError /\ CollIdle /\ StrIdle /\ RouteIdle /\ DevIdle /\ RespIdle /\ BuildIdle

SpecError == InitErrors /\ [][NextError]_vars

InitResponses ==
    InitResponse /\ CollIdle /\ RouteIdle /\ DevIdle /\ ErrIdle /\ BuildIdle

SpecResponse == InitResponses /\ [][NextResponse]_vars

InitBuilders == InitBuilder /\ CollIdle /\ StrIdle /\ ErrIdle /\ RespIdle

SpecBuilder == InitBuilders /\ [][NextBuilder]_vars

InitQueries == InitQuery /\ StrIdle /\ RouteIdle /\ DevIdle /\ AuxIdle

SpecQuery == InitQueries /\ [][NextQuery]_vars

(***************************************************************************)
(* Properties of the collections.                                          *)
(***************************************************************************)
IsSet == kind \in SetKinds
IsMap == kind \in MapKinds \cup {"Parameters"}
InsertOps == {"insert", "add", "bool", "u8"}

\* The item handed over by the last insert/add and the key it is stored under.
LastItem == hist[Len(hist)]
KeyOf(item) == IF IsSet THEN item ELSE item[1]
KeysOf(s) == [i \in 1..Len(s) |-> KeyOf(s[i])]
HasKey(s, k) == \E i \in 1..Len(s) : KeyOf(s[i]) = k
Distinct(s) == \A i, j \in 1..Len(s) : i # j => s[i] # s[j]
len == IF IsSet THEN set_len(coll) ELSE map_len(coll)

\* C1: a collection of any variant never holds more than N entries, whatever
\* sequence of init, init_with_elements, insert, add and merge built it.
C1_LenWithinCapacity == len <= cap /\ set_len(other) <= cap

C1_Witness == Len(hist) > cap /\ len = cap /\ lastOp \in {"insert", "add", "init_with_elements"}

\* C2: insert/add of a new key into a collection that holds N entries, and a
\* new name given to a full Parameters builder, changes nothing and does not
\* panic.
C2_FullInsertIsNoOp ==
    (lastOp \in InsertOps /\ Len(prev) = cap /\ ~HasKey(prev, KeyOf(LastItem)))
        => (coll = prev /\ len = cap /\ ~panicked)

C2_Witness ==
    /\ kind = "Parameters" /\ lastOp = "u8"
    /\ Len(prev) = cap /\ ~HasKey(prev, KeyOf(LastItem))

\* C3: k pairwise distinct keys inserted into an empty map of capacity
\* N >= k give len() = k and an iteration in the order of insertion.
C3_DistinctKeysKeepOrder ==
    (IsMap /\ Distinct(KeysOf(hist)) /\ Len(hist) <= cap)
        => (map_len(coll) = Len(hist) /\ KeysOf(map_iter(coll)) = KeysOf(hist))

C3_Witness ==
    /\ kind \in MapKinds /\ lastOp \in {"insert", "add"}
    /\ Distinct(KeysOf(hist)) /\ Len(hist) = 3 /\ cap = 4

\* C4: insert/add of a key the map holds replaces the value of that key and
\* leaves the length, the position of the key and every other entry alone,
\* also in a full map.
C4_ReinsertReplacesInPlace ==
    (kind \in MapKinds /\ lastOp \in {"insert", "add"} /\ map_contains_key(prev, LastItem[1]))
        => /\ map_len(coll) = map_len(prev)
           /\ \A i \in 1..Len(prev) :
                IF prev[i][1] = LastItem[1] THEN coll[i] = LastItem ELSE coll[i] = prev[i]

C4_Witness ==
    /\ kind \in MapKinds /\ lastOp = "insert" /\ map_len(prev) = cap
    /\ map_contains_key(prev, LastItem[1]) /\ coll # prev
    /\ prev[1][1] = LastItem[1]

\* C5: insert/add of an element the set holds changes neither the length nor
\* the iteration order; Hazards::<4>::new().insert(A).insert(B).insert(A)
\* has length 2 and iterates A, B.
C5_SetInsertIdempotent ==
    /\ (IsSet /\ lastOp \in {"insert", "add"} /\ set_contains(prev, LastItem))
          => coll = prev
    /\ (kind = "OutputSet" /\ cap = 4 /\ hist = <<"A", "B", "A">>)
          => (set_len(coll) = 2 /\ set_iter(coll) = <<"A", "B">>)

C5_Witness ==
    /\ kind = "OutputSet" /\ cap = 4 /\ lastOp = "insert"
    /\ hist = <<"A", "B", "A">> /\ prev = <<"A", "B">>

\* The entries of o that s does not hold, in o's order.
NewIn(o, s) == SelectSeq(o, LAMBDA e : e \notin Range(s))

\* C6: when the union fits, merge keeps the receiver's entries in their
\* order, appends the other set's new entries in the other set's order and
\* leaves the other set alone.
C6_MergeAppendsNew ==
    [][(lastOp' = "merge" /\ Cardinality(Range(coll) \cup Range(other)) <= cap)
          => (coll' = coll \o NewIn(other, coll) /\ other' = other /\ ~panicked')]_vars

C6_Witness ==
    /\ lastOp = "merge" /\ ~panicked
    /\ prev = <<"B">> /\ other = <<"C", "B", "A">> /\ set_len(coll) = 3

\* C7: merge returns normally when the union does not fit: the receiver
\* ends full and still holds what it held.
C7_MergeNeverPanics ==
    (lastOp = "merge" /\ Cardinality(Range(prev) \cup Range(other)) > cap)
        => (~panicked /\ set_len(coll) = cap /\ Range(prev) \subseteq Range(coll))

\* insert folded over a list of items.
RECURSIVE SetInsertAll(_, _, _)
SetInsertAll(s, xs, n) ==
    IF xs = <<>> THEN s ELSE SetInsertAll(set_insert(s, Head(xs), n), Tail(xs), n)

RECURSIVE MapInsertAll(_, _, _)
MapInsertAll(m, xs, n) ==
    IF xs = <<>> THEN m
    ELSE MapInsertAll(map_insert(m, Head(xs)[1], Head(xs)[2], n), Tail(xs), n)

\* C8: whatever mix of insert and add built the collection, it is the
\* collection that insert alone, add alone, and init_with_elements build from
\* the same items.
C8_InsertEqualsAdd ==
    ~panicked =>
        IF IsSet
        THEN /\ coll = SetInsertAll(set_new, hist, cap)
             /\ coll = SetAddAll(set_new, hist, cap)
             /\ coll = set_init_with_elements(hist, cap)
        ELSE /\ coll = MapInsertAll(map_new, hist, cap)
             /\ coll = MapAddAll(map_new, hist, cap)
             /\ coll = map_init_with_elements(hist, cap)

C8_Witness ==
    /\ kind = "Map" /\ lastOp = "add" /\ Len(hist) = 3 /\ Len(coll) = 2
    /\ hist[1][1] = hist[3][1] /\ hist[1][2] # hist[3][2]

ByteLen(text) == Len(Encode(text))

\* C10: String::<N>::new(text) succeeds exactly when text has at most N
\* bytes; then as_str() is text, otherwise the error is of kind FixedText.
C10_NewSucceedsIffFits ==
    strOp = "new" =>
        /\ (ret = "Ok") <=> (ByteLen(strArg) <= strCap)
        /\ ret = "Ok" => as_str(str) = strArg
        /\ ret # "Ok" => ret = "FixedText"

C10_Witness ==
    /\ strOp = "new" /\ ret = "Ok" /\ strArg = <<"e_acute", "a">>
    /\ ByteLen(strArg) = strCap /\ strPrev # str

\* C11: push and push_char fail exactly when the bytes held plus the bytes
\* appended exceed N; a failure leaves as_str() as it was, a success leaves
\* the old content followed by the appended text or character.
C11_PushIsAtomic ==
    strOp \in {"push", "push_char"} =>
        /\ (ret # "Ok") <=> (ByteLen(as_str(strPrev)) + ByteLen(strArg) > strCap)
        /\ ret # "Ok" => as_str(str) = as_str(strPrev)
        /\ ret = "Ok" => as_str(str) = as_str(strPrev) \o strArg

C11_Witness ==
    /\ strOp = "push" /\ ret = "FixedText" /\ strPrev # <<>> /\ Len(strArg) = 2
    /\ Len(strPrev) + ByteLen(<<strArg[1]>>) <= strCap

\* C12: however the text was built and whether the calls succeeded or
\* failed, as_str() has at most N bytes.
C12_ByteLenWithinCapacity == ByteLen(as_str(str)) <= strCap

C12_Witness ==
    /\ strOp = "write_char" /\ ret = "fmt::Error" /\ strArg = <<"e_acute">>
    /\ ByteLen(as_str(str)) = strCap - 1 /\ strCap = MaxStrCap

\* C13: infallible(text) never fails: it is the text when the text fits
\* (what new(text) returns) and the empty string when it does not.
C13_InfallibleFallsBackToEmpty ==
    strOp = "infallible" =>
        /\ ret = "Ok"
        /\ ByteLen(strArg) <= strCap =>
              (as_str(str) = strArg /\ string_new(strArg, strCap).ok
                  /\ str = string_new(strArg, strCap).value)
        /\ ByteLen(strArg) > strCap =>
              (string_is_empty(str) /\ ~string_new(strArg, strCap).ok)

C13_Witness ==
    /\ strOp = "infallible" /\ ByteLen(strArg) > strCap
    /\ ByteLen(<<strArg[1]>>) <= strCap /\ strPrev # <<>> /\ str = <<>>

(***************************************************************************)
(* Properties of the routes.                                               *)
(***************************************************************************)
Finalized(i) == configs[i] # <<>>

\* Two routes can be compared when they are of the same type Route<H, P>.
SameType(i, j) == routes[i].H = routes[j].H /\ routes[i].P = routes[j].P

SameNameAndVerb(i, j) ==
    routes[i].name = routes[j].name /\ routes[i].rest_kind = routes[j].rest_kind

\* C14: the RouteConfigs of two routes with the same name and REST verb,
\* whatever the description, hazards and parameters of the two, compare equal
\* and feed the same data to the hasher.
C14_ConfigsOfSameNameAndVerbAlike ==
    \A i, j \in RouteIds :
        Finalized(i) /\ Finalized(j) /\ SameType(i, j) /\ SameNameAndVerb(i, j) =>
            /\ route_config_eq(configs[i][1], configs[j][1])
            /\ route_config_hash(configs[i][1]) = route_config_hash(configs[j][1])

C14_Witness ==
    /\ Finalized(1) /\ Finalized(2) /\ SameType(1, 2) /\ SameNameAndVerb(1, 2)
    /\ configs[1][1].data.description # configs[2][1].data.description
    /\ configs[1][1].data.hazards # configs[2][1].data.hazards
    /\ configs[1][1].data.parameters # configs[2][1].data.parameters

\* C15: two routes with the same name and REST verb compare equal and feed
\* the same data to the hasher, whatever their description, hazards and
\* parameters.
C15_RoutesOfSameNameAndVerbAlike ==
    \A i, j \in RouteIds :
        SameType(i, j) /\ SameNameAndVerb(i, j) =>
            /\ route_eq(routes[i], routes[j])
            /\ route_hash(routes[i]) = route_hash(routes[j])

(***************************************************************************)
(* Properties of the parameters.                                           *)
(***************************************************************************)
Min2(a, b) == IF a < b THEN a ELSE b

\* The names of a chain of calls, each once, in the order of first use.
RECURSIVE FirstUses(_)
FirstUses(names) ==
    IF names = <<>> THEN <<>>
    ELSE LET front == FirstUses(SubSeq(names, 1, Len(names) - 1))
             last == names[Len(names)]
         IN  IF last \in Range(front) THEN front ELSE Append(front, last)

\* The parameter given by the last call of the chain for a name.
LastGiven(calls, name) ==
    calls[CHOOSE i \in 1..Len(calls) :
              /\ calls[i][1] = name
              /\ \A j \in (i + 1)..Len(calls) : calls[j][1] # name][2]

JustFinalized == lastOp = "serialize_data"

\* C16 as stated: the finalized ParametersData has exactly one entry for each
\* distinct name used in the chain, holding the parameter of the last call
\* for that name.
C16_OneEntryPerNameUsed ==
    JustFinalized =>
        /\ Distinct(KeysOf(coll))
        /\ Range(KeysOf(coll)) = Range(KeysOf(hist))
        /\ \A i \in 1..Len(coll) : coll[i][2] = LastGiven(hist, coll[i][1])

\* C16, amended: the finalized ParametersData has exactly one entry for each
\* of the first N distinct names used, in the order of their first use,
\* holding the parameter of the last call for that name; a name first used
\* when N names are held has no entry.
C16_OneEntryPerNameHeld ==
    JustFinalized =>
        /\ Distinct(KeysOf(coll))
        /\ KeysOf(coll) =
              SubSeq(FirstUses(KeysOf(hist)), 1, Min2(cap, Len(FirstUses(KeysOf(hist)))))
        /\ \A i \in 1..Len(coll) : coll[i][2] = LastGiven(hist, coll[i][1])

C16_Witness ==
    /\ JustFinalized
    /\ hist = << <<"a", <<"U8", 5>> >>, <<"a", <<"U8", 9>> >> >>
    /\ coll = << <<"a", <<"U8", 9>> >> >>

IsRange(parameter_kind) == parameter_kind[1] \in {"RangeU64", "RangeF64"}

\* C17: every range parameter held by the builder has its default between
\* its minimum and its maximum.
C17_DefaultWithinRange ==
    \A i \in 1..Len(coll) :
        IsRange(coll[i][2]) =>
            /\ coll[i][2][2] <= coll[i][2][5]
            /\ coll[i][2][5] <= coll[i][2][3]

(***************************************************************************)
(* Properties of the device information.                                   *)
(***************************************************************************)
FieldNames(enc) == {enc[i][1] : i \in 1..Len(enc)}
FieldValue(enc, name) == enc[CHOOSE i \in 1..Len(enc) : enc[i][1] = name][2]

\* The external names of the fields of an Energy and of an Economy that are
\* present.
PresentEnergyFields(e) ==
    (IF e.energy_efficiencies # <<>> THEN {"energy-efficiencies"} ELSE {})
    \cup (IF e.carbon_footprints # <<>> THEN {"carbon-footprints"} ELSE {})
    \cup (IF e.water_use_efficiency # <<>> THEN {"water-use-efficiency"} ELSE {})

PresentEconomyFields(e) ==
    (IF e.costs # <<>> THEN {"costs"} ELSE {})
    \cup (IF e.roi # <<>> THEN {"roi"} ELSE {})

\* C18: the encoded DeviceInfo has an energy field exactly when one of the
\* three fields of its Energy is present, and that field lists the present
\* fields only; likewise economy with costs and roi.  Adding an empty Energy
\* or Economy leaves the encoded form without the field.
C18_EmptyGroupsOmitted ==
    LET enc == encode_device_info(info)
    IN  /\ FieldNames(enc) \subseteq {"economy", "energy"}
        /\ "energy" \in FieldNames(enc) <=> PresentEnergyFields(info.energy) # {}
        /\ "energy" \in FieldNames(enc) =>
              FieldNames(FieldValue(enc, "energy")) = PresentEnergyFields(info.energy)
        /\ "economy" \in FieldNames(enc) <=> PresentEconomyFields(info.economy) # {}
        /\ "economy" \in FieldNames(enc) =>
              FieldNames(FieldValue(enc, "economy")) = PresentEconomyFields(info.economy)
        /\ devOp = "add_energy" /\ energy = energy_empty => "energy" \notin FieldNames(enc)
        /\ devOp = "add_economy" /\ economy = economy_empty => "economy" \notin FieldNames(enc)

C18_Witness ==
    /\ devOp = "add_energy"
    /\ PresentEnergyFields(info.energy) = {"water-use-efficiency"}
    /\ info.economy = economy_empty
    /\ FieldNames(encode_device_info(info)) = {"energy"}

(***************************************************************************)
(* Properties of the finalized routes.                                     *)
(***************************************************************************)
\* C19: the RouteConfig of a route has the name, REST verb and description
\* of the route, its hazards in the same order, its parameter entries with
\* the same names and values in the same order (the ParametersData has the
\* length of the builder), and the response kind Ok.
C19_FinalizationCopiesFields ==
    \A i \in RouteIds :
        Finalized(i) =>
            LET c == configs[i][1]
                r == routes[i]
            IN  /\ c.data.name = r.name
                /\ c.rest_kind = r.rest_kind
                /\ c.data.description = r.description
                /\ set_iter(c.data.hazards) = set_iter(r.hazards)
                /\ map_len(c.data.parameters) = map_len(r.parameters)
                /\ map_iter(c.data.parameters) = map_iter(r.parameters)
                /\ c.response_kind = "Ok"

C19_Witness ==
    \E i \in RouteIds :
        /\ Finalized(i)
        /\ configs[i][1].data.description = <<"light">>
        /\ set_iter(configs[i][1].data.hazards) = <<"B", "A">>
        /\ map_len(configs[i][1].data.parameters) = 2
        /\ map_iter(configs[i][1].data.parameters)[1][1] = "b"
        /\ map_iter(configs[i][1].data.parameters)[2][1] = "a"
        /\ configs[i][1].data.name = "/off" /\ configs[i][1].rest_kind = "Post"

\* The REST verb of the route each constructor makes.
VerbOf(c) ==
    CASE c = "get" -> "Get"
      [] c = "put" -> "Put"
      [] c = "post" -> "Post"
      [] c = "delete" -> "Delete"

BaseFields == {"name", "description", "REST kind", "response kind"}

\* C20: the encoded RouteConfig always has the fields name, description,
\* REST kind and response kind, a hazards field exactly when the hazards are
\* not empty and a parameters field exactly when the parameters are not
\* empty; with no hazards and no parameters it has exactly the four fields,
\* and its REST kind is the verb of the constructor used.
C20_EncodedRouteFields ==
    \A i \in RouteIds :
        Finalized(i) =>
            LET enc == encode_route_config(configs[i][1])
            IN  /\ BaseFields \subseteq FieldNames(enc)
                /\ FieldNames(enc) \subseteq BaseFields \cup {"hazards", "parameters"}
                /\ "hazards" \in FieldNames(enc) <=> set_len(routes[i].hazards) > 0
                /\ "parameters" \in FieldNames(enc) <=> map_len(routes[i].parameters) > 0
                /\ FieldValue(enc, "REST kind") = VerbOf(ctor[i])
                /\ FieldValue(enc, "name") = routes[i].name
                /\ set_len(routes[i].hazards) = 0 /\ map_len(routes[i].parameters) = 0
                      => FieldNames(enc) = BaseFields

C20_Witness ==
    /\ Finalized(2) /\ ctor[2] = "delete"
    /\ routes[2].description = <<"light">>
    /\ routes[2].H = 2 /\ routes[2].P = 2
    /\ FieldNames(encode_route_config(configs[2][1])) = BaseFields
    /\ FieldValue(encode_route_config(configs[2][1]), "REST kind") = "Delete"

(***************************************************************************)
(* Properties of the errors.                                               *)
(***************************************************************************)
\* C21: an error is displayed as the description of its kind, a colon and a
\* space, its cause and one trailing space, with nothing after that space.
C21_DisplayEndsWithSpace ==
    shown # <<>> =>
        shown[2] = error_kind_description(shown[1].kind) \o <<":", " ">>
                       \o shown[1].info \o <<" ">>

(***************************************************************************)
(* Properties of the error responses.                                      *)
(***************************************************************************)
\* The fields of the response created and the texts given for them: the
\* description, and the information text when the response has one.
ResponseFields ==
    IF resp = <<>> THEN {}
    ELSE {<<resp[1].description, respGiven[1]>>}
         \cup (IF resp[1].info = <<>> THEN {}
               ELSE {<<resp[1].info[1], respGiven[2][1]>>})

OnRoute(c) == subject = "Route" /\ call = c

\* The names of the parameters a builder holds.
ParameterNames(p) == {p[k][1] : k \in 1..Len(p)}

\* C23 as stated: no builder call on a route removes a hazard or a parameter
\* the route held before the call.
C23_RouteNeverLosesEntries ==
    subject = "Route" /\ call # "new" =>
        /\ Range(set_iter(before.hazards)) \subseteq Range(set_iter(routes[1].hazards))
        /\ ParameterNames(before.parameters) \subseteq ParameterNames(routes[1].parameters)

\* C23, amended: description and change_route leave the hazards and the
\* parameters of the route as they were; with_hazards replaces the hazards
\* by the set given, so a hazard held before and absent from that set is
\* removed, and leaves the parameters as they were; with_parameters replaces
\* the parameters by the map given and leaves the hazards as they were.
C23_RouteKeepsOrReplacesEntries ==
    /\ OnRoute("description") \/ OnRoute("change_route") =>
          /\ set_iter(routes[1].hazards) = set_iter(before.hazards)
          /\ map_iter(routes[1].parameters) = map_iter(before.parameters)
    /\ OnRoute("with_hazards") =>
          /\ set_iter(routes[1].hazards) = set_iter(arg[2])
          /\ map_iter(routes[1].parameters) = map_iter(before.parameters)
    /\ OnRoute("with_parameters") =>
          /\ map_iter(routes[1].parameters) = map_iter(arg[2])
          /\ set_iter(routes[1].hazards) = set_iter(before.hazards)

C23_Witness ==
    /\ OnRoute("with_hazards")
    /\ set_iter(before.hazards) = <<"B", "A">>
    /\ set_is_empty(routes[1].hazards)
    /\ map_len(before.parameters) = 2 /\ map_len(routes[1].parameters) = 2

\* The fields of a route, of an Energy and of an Economy.
RouteFields == {"name", "rest_kind", "description", "parameters", "hazards"}
EnergyFields == {"energy_efficiencies", "carbon_footprints", "water_use_efficiency"}
EconomyFields == {"costs", "roi"}

\* The record now has the fields of the record then, but for the field f.
OnlyChanged(then, now, fields, f) == \A g \in fields \ {f} : now[g] = then[g]

\* C25: a builder call changes the field it targets and no other.  On a
\* route description sets the description, change_route the name,
\* with_hazards the hazards and with_parameters the parameters; on an Energy
\* or an Economy a setter makes its field present with the value given; on a
\* DeviceInfo add_energy and add_economy replace the record they name.
C25_CallsChangeTheirFieldOnly ==
    /\ OnRoute("description") =>
          /\ routes[1].description = <<arg[1]>>
          /\ OnlyChanged(before, routes[1], RouteFields, "description")
    /\ OnRoute("change_route") =>
          /\ routes[1].name = arg[1]
          /\ OnlyChanged(before, routes[1], RouteFields, "name")
    /\ OnRoute("with_hazards") =>
          /\ routes[1].hazards = arg[2]
          /\ OnlyChanged(before, routes[1], RouteFields, "hazards")
    /\ OnRoute("with_parameters") =>
          /\ routes[1].parameters = arg[2]
          /\ OnlyChanged(before, routes[1], RouteFields, "parameters")
    /\ subject = "Energy" /\ call = "energy_efficiencies" =>
          /\ energy.energy_efficiencies = <<arg[1]>>
          /\ OnlyChanged(before, energy, EnergyFields, "energy_efficiencies")
    /\ subject = "Energy" /\ call = "carbon_footprints" =>
          /\ energy.carbon_footprints = <<arg[1]>>
          /\ OnlyChanged(before, energy, EnergyFields, "carbon_footprints")
    /\ subject = "Energy" /\ call = "water_use_efficiency" =>
          /\ energy.water_use_efficiency = <<arg[1]>>
          /\ OnlyChanged(before, energy, EnergyFields, "water_use_efficiency")
    /\ subject = "Economy" /\ call = "costs" =>
          /\ economy.costs = <<arg[1]>>
          /\ OnlyChanged(before, economy, EconomyFields, "costs")
    /\ subject = "Economy" /\ call = "rois" =>
          /\ economy.roi = <<arg[1]>>
          /\ OnlyChanged(before, economy, EconomyFields, "roi")
    /\ subject = "DeviceInfo" /\ call = "add_energy" =>
          info.energy = arg[1] /\ info.economy = before.economy
    /\ subject = "DeviceInfo" /\ call = "add_economy" =>
          info.economy = arg[1] /\ info.energy = before.energy

C25_Witness ==
    /\ subject = "Energy" /\ call = "water_use_efficiency"
    /\ before.energy_efficiencies # <<>> /\ before.carbon_footprints # <<>>
    /\ before.water_use_efficiency = <<>>
    /\ energy.water_use_efficiency = <<"wue">>
    /\ energy.carbon_footprints = before.carbon_footprints

(***************************************************************************)
(* Properties of the collections over time.                                *)
(***************************************************************************)
contains(s, k) == IF IsSet THEN set_contains(s, k) ELSE map_contains_key(s, k)

\* C24: an element or key the collection held before a call of insert, add
\* or merge is held after it, and len() is not smaller than before; so what
\* is contained once stays contained along any sequence of these calls.
C24_MembershipStable ==
    lastOp \in InsertOps \cup {"merge"} =>
        /\ \A i \in 1..Len(prev) : contains(coll, KeyOf(prev[i]))
        /\ len >= Len(prev)

C24_Witness ==
    /\ lastOp = "merge" /\ ~panicked /\ cap = 4
    /\ Len(prev) = 2 /\ len = 3
    /\ \A i \in 1..Len(prev) : set_contains(coll, prev[i])

QueryOps == {"is_empty", "len", "contains", "contains_key", "iter"}

\* What iter() yields, and the answers of the other queries.
Items == IF IsSet THEN set_iter(coll) ELSE map_iter(coll)
is_empty == IF IsSet THEN set_is_empty(coll) ELSE map_is_empty(coll)

\* C26: in every state of a collection len() is the number of items iter()
\* yields, is_empty() holds exactly when len() is 0, iter() yields no element
\* or key twice, and contains / contains_key holds exactly for the elements
\* or keys iter() yields; a query leaves the collection as it was.
C26_QueriesAgreeWithIter ==
    /\ len = Len(Items)
    /\ is_empty <=> len = 0
    /\ Distinct(KeysOf(Items))
    /\ \A k \in Elems \cup Keys : contains(coll, k) <=> k \in Range(KeysOf(Items))
    /\ lastOp \in QueryOps => coll = prev /\ Items = prev

C26_Witness ==
    /\ lastOp = "iter" /\ kind = "Map" /\ cap = 2
    /\ Len(hist) = 3 /\ len = 2 /\ coll = prev
    /\ KeyOf(hist[1]) = KeyOf(hist[2]) /\ KeyOf(hist[3]) # KeyOf(hist[1])

====
